---- MODULE Spec2Model ----
(***************************************************************************)
(* A model of the resumable, quota-aware batch acquisition pipeline of the *)
(* Bloomberg data fetcher: FetchStateManager (session state and its file), *)
(* UsageMonitor (quota ledger), the retry loops of RobustFetcher and       *)
(* ConstituentsFetcher, DataProcessor.validate_data and                    *)
(* DatabaseManager.save_options_data.                                      *)
(*                                                                         *)
(* Each component has its own specification over its own variables; the    *)
(* variables of the other components keep their initial values.            *)
(***************************************************************************)
EXTENDS Integers, Sequences, FiniteSets, TLC

None == "None"

\* max_retries of the retry loops
max_retries == 3

\* The target ids used by the state manager specification.
Tickers == {"QQQ", "AAPL"}

\* ------------------------------------------------------------------------
\* Bounds of the model
\* ------------------------------------------------------------------------
\* wall-clock seconds modelled (session ids are derived from the clock)
MaxClock == 1
\* cap of the cumulative statistics counters
MaxStat == 1
\* cap of the number of checkpoints kept
MaxCheckpoints == 1

\* ------------------------------------------------------------------------
\* Sequence helpers
\* ------------------------------------------------------------------------
InSeq(x, s) == \E i \in 1..Len(s) : s[i] = x

SeqSet(s) == {s[i] : i \in 1..Len(s)}

\* list.remove(x): drops the first occurrence of x
RemoveFirst(s, x) ==
    IF ~InSeq(x, s) THEN s
    ELSE LET i == CHOOSE k \in 1..Len(s) : s[k] = x /\ \A j \in 1..(k-1) : s[j] # x
         IN  SubSeq(s, 1, i-1) \o SubSeq(s, i+1, Len(s))

\* the lists of distinct target ids
TickerLists ==
    {<<>>} \cup {<<t>> : t \in Tickers}
           \cup {p \in {<<t, u>> : t \in Tickers, u \in Tickers} : p[1] # p[2]}

\* ------------------------------------------------------------------------
\* FetchStateManager: the state dictionary
\* ------------------------------------------------------------------------
NotFailed == [present |-> FALSE, error |-> "", retry_count |-> 0]

NoFailures == [t \in Tickers |-> NotFailed]

FailedSet(s) == {t \in Tickers : s.failed[t].present}

ErrorTexts == {"No data fetched"}

\* FetchStateManager._create_new_state: the session id is the clock reading
\* formatted to the second
_create_new_state(clock) ==
    [session_id |-> clock,
     status |-> "initialized",
     total_tickers |-> 0,
     completed |-> <<>>,
     failed |-> NoFailures,
     pending |-> <<>>,
     in_progress |-> None,
     records_fetched |-> 0,
     api_points_used |-> 0,
     errors_encountered |-> 0,
     retries_attempted |-> 0,
     checkpoints |-> <<>>]

\* The state file: absent, truncated (opened for writing, content not yet
\* or only partly written) or holding a complete state document
AbsentFile == [kind |-> "absent", content |-> _create_new_state(0)]

TruncatedFile == [kind |-> "truncated", content |-> _create_new_state(0)]

FileOf(s) == [kind |-> "state", content |-> s]

\* FetchStateManager._load_or_create_state
_load_or_create_state(file, clock) ==
    IF file.kind = "state" THEN file.content ELSE _create_new_state(clock)

\* an initialisation that keeps the failures of the previous target list
after_initialize_tickers_keeping_failed(s, tickers) ==
    [s EXCEPT !.total_tickers = Len(tickers),
              !.pending = tickers,
              !.completed = <<>>,
              !.status = "ready"]

\* the in-memory effect of initialize_tickers
after_initialize_tickers(s, tickers) ==
    [s EXCEPT !.total_tickers = Len(tickers),
              !.pending = tickers,
              !.completed = <<>>,
              !.failed = NoFailures,
              !.status = "ready"]

\* start_ticker returns False, and changes nothing, for a completed ticker
start_ticker_returns(s, ticker) == ~InSeq(ticker, s.completed)

\* a start that leaves the ticker in the pending list
after_start_ticker_keeping_pending(s, ticker) ==
    IF InSeq(ticker, s.completed) THEN s
    ELSE [s EXCEPT !.in_progress = ticker,
                   !.status = "fetching"]

after_start_ticker(s, ticker) ==
    IF InSeq(ticker, s.completed) THEN s
    ELSE [s EXCEPT !.pending = RemoveFirst(s.pending, ticker),
                   !.in_progress = ticker,
                   !.status = "fetching"]

after_complete_ticker(s, ticker, records, api_points) ==
    [s EXCEPT !.completed = IF InSeq(ticker, s.completed) THEN s.completed
                            ELSE Append(s.completed, ticker),
              !.failed = [s.failed EXCEPT ![ticker] = NotFailed],
              !.in_progress = IF s.in_progress = ticker THEN None ELSE s.in_progress,
              !.records_fetched = s.records_fetched + records,
              !.api_points_used = s.api_points_used + api_points]

\* a failure that puts the ticker back at the end of the pending list
after_fail_ticker_requeueing(s, ticker, error, retry_count) ==
    [s EXCEPT !.failed = [s.failed EXCEPT ![ticker] =
                             [present |-> TRUE, error |-> error,
                              retry_count |-> retry_count]],
              !.pending = IF InSeq(ticker, s.pending) THEN s.pending
                          ELSE Append(s.pending, ticker),
              !.in_progress = IF s.in_progress = ticker THEN None ELSE s.in_progress,
              !.errors_encountered = s.errors_encountered + 1,
              !.retries_attempted = s.retries_attempted + retry_count]

after_fail_ticker(s, ticker, error, retry_count) ==
    [s EXCEPT !.failed = [s.failed EXCEPT ![ticker] =
                             [present |-> TRUE, error |-> error,
                              retry_count |-> retry_count]],
              !.in_progress = IF s.in_progress = ticker THEN None ELSE s.in_progress,
              !.errors_encountered = s.errors_encountered + 1,
              !.retries_attempted = s.retries_attempted + retry_count]

after_save_checkpoint(s) ==
    [s EXCEPT !.checkpoints = Append(s.checkpoints,
                 [completed |-> Len(s.completed),
                  failed |-> Cardinality(FailedSet(s)),
                  pending |-> Len(s.pending),
                  records |-> s.records_fetched,
                  api_usage |-> s.api_points_used])]

get_next_ticker(s) == IF Len(s.pending) > 0 THEN s.pending[1] ELSE None

\* a get_resume_point that looks at pending first
get_resume_point_pending_first(s) ==
    IF Len(s.pending) > 0 THEN s.pending[1] ELSE s.in_progress

get_resume_point(s) ==
    IF s.in_progress # None THEN s.in_progress ELSE get_next_ticker(s)

VARIABLES
    state,        \* FetchStateManager.state of the running process
    state_file,   \* logs/fetch_state.json
    now,          \* the wall clock, in seconds
    targets,      \* the target ids handed to the session so far
    crash_obs,    \* what the load after a crash observed, "none" when no crash
    limits,       \* the configured daily_limit and monthly_limit
    usage_data,   \* UsageMonitor.usage_data of each monitor instance
    usage_file,   \* logs/api_usage.json
    today,        \* the calendar day of the wall clock
    loaded,       \* the ledger the monitors loaded when they were constructed
    recorded,     \* per monitor and day, the units passed to record_usage
    answer,       \* the last can_make_request call and what it returned
    pc,           \* where the fetch process is: stopped, idle or inside a loop
    resume,       \* the resume argument of the running process
    runs,         \* the number of processes started so far
    called,       \* the loops the running process has entered
    retry_count,  \* retry_count of the loop the process is in
    idx,          \* position of fetch_all_constituents in its ticker list
    results,      \* results of fetch_all_constituents
    qqq_result,   \* status returned by _fetch_qqq_with_recovery
    attempts,     \* per target, the attempts made by the running process
    done_before,  \* the targets earlier processes had completed when they ended
    options_data, \* the rows of the options_data table
    repeat,       \* the key of the last single-record save and how often it recurred
    last_saved,   \* the frame of the last save_options_data call made on its own
    saved_over,   \* the rows of the table when that call was made
    include,      \* include_qqq and include_constituents of the fetch_all call
    connection,   \* what _connect_bloomberg returned to fetch_all
    errors,       \* results['errors'] of fetch_all
    exit_code,    \* what main returned
    interrupt,    \* where a KeyboardInterrupt reached fetch_all
    refused,      \* the constituents for which can_make_request returned False
    late_requests,\* the constituents requested from the provider after a refusal
    fail_error,   \* per constituent, the exception text it was given up with
    charged,      \* per constituent, the units its attempts passed to record_usage
    success_units,\* per constituent, the units its successful attempt recorded
    asked,        \* the last read-only call on the state manager and what it returned
    fetch_history \* the rows of table fetch_history of logs/fetch_progress.db

smVars == <<state, state_file, now, targets, crash_obs>>

quotaVars == <<limits, usage_data, usage_file, today, loaded, recorded, answer>>

sessVars == <<pc, resume, runs, called, retry_count, idx, results, qqq_result,
              attempts, done_before>>

storeVars == <<options_data, repeat, last_saved, saved_over>>

runVars == <<include, connection, errors, exit_code, interrupt>>

tryVars == <<refused, late_requests, fail_error, charged, success_units>>

askVars == <<asked>>

logVars == <<fetch_history>>

vars == <<smVars, quotaVars, sessVars, storeVars, runVars, tryVars, askVars, logVars>>

\* the variables the FetchStateManager methods leave alone
notSM == <<quotaVars, sessVars, storeVars, runVars, tryVars, askVars, logVars>>

\* the variables the UsageMonitor methods leave alone
notQuota == <<smVars, sessVars, storeVars, runVars, tryVars, askVars, logVars>>

\* crash_obs classifies what the load after a crash observed
NoCrash == "none"

Observed(seen, before, after) ==
    IF seen = before THEN "before"
    ELSE IF seen = after THEN "after"
    ELSE "neither"

SMInit ==
    /\ now = 0
    /\ state_file = AbsentFile
    /\ state = _load_or_create_state(AbsentFile, 0)
    /\ targets = {}
    /\ crash_obs = NoCrash

\* save_state: open(state_file, 'w') and json.dump of the whole state
save_state(s) == FileOf(s)

Tick ==
    /\ now < MaxClock
    /\ now' = now + 1
    /\ UNCHANGED <<state, state_file, targets, crash_obs, notSM>>

initialize_tickers(tickers) ==
    /\ state' = after_initialize_tickers(state, tickers)
    /\ state_file' = save_state(state')
    /\ targets' = SeqSet(tickers)
    /\ crash_obs' = NoCrash
    /\ UNCHANGED <<now, notSM>>

start_ticker(ticker) ==
    /\ state' = after_start_ticker(state, ticker)
    /\ state_file' = IF start_ticker_returns(state, ticker)
                     THEN save_state(state') ELSE state_file
    /\ targets' = targets \cup {ticker}
    /\ crash_obs' = NoCrash
    /\ UNCHANGED <<now, notSM>>

complete_ticker(ticker, records, api_points) ==
    /\ state.records_fetched + records <= MaxStat
    /\ state.api_points_used + api_points <= MaxStat
    /\ state' = after_complete_ticker(state, ticker, records, api_points)
    /\ state_file' = save_state(state')
    /\ targets' = targets \cup {ticker}
    /\ crash_obs' = NoCrash
    /\ UNCHANGED <<now, notSM>>

fail_ticker(ticker, error, retries) ==
    /\ state.errors_encountered + 1 <= MaxStat
    /\ state' = after_fail_ticker(state, ticker, error, retries)
    /\ state_file' = save_state(state')
    /\ targets' = targets \cup {ticker}
    /\ crash_obs' = NoCrash
    /\ UNCHANGED <<now, notSM>>

save_checkpoint ==
    /\ Len(state.checkpoints) < MaxCheckpoints
    /\ state' = after_save_checkpoint(state)
    /\ state_file' = save_state(state')
    /\ crash_obs' = NoCrash
    /\ UNCHANGED <<now, targets, notSM>>

reset_state ==
    /\ state' = _create_new_state(now)
    /\ state_file' = save_state(state')
    /\ targets' = {}
    /\ crash_obs' = NoCrash
    /\ UNCHANGED <<now, notSM>>

\* FetchStateManager.__init__ in a new process: the state is read from the file
Restart ==
    /\ state' = _load_or_create_state(state_file, now)
    /\ crash_obs' = NoCrash
    /\ UNCHANGED <<state_file, now, targets, notSM>>

\* The states a mutating method would leave in memory, and hand to save_state,
\* when called in the current state
MutationResults ==
    {after_initialize_tickers(state, tickers) : tickers \in TickerLists}
    \cup {after_start_ticker(state, t) :
            t \in {u \in Tickers : start_ticker_returns(state, u)}}
    \cup {after_complete_ticker(state, t, r, r) :
            t \in Tickers, r \in {q \in 0..1 : /\ state.records_fetched + q <= MaxStat
                                               /\ state.api_points_used + q <= MaxStat}}
    \cup {after_fail_ticker(state, t, e, 0) :
            t \in Tickers, e \in {x \in ErrorTexts : state.errors_encountered < MaxStat}}
    \cup {_create_new_state(now)}

\* What save_state leaves on disk when the process dies in it: open(..., 'w')
\* truncates the file, json.dump then writes the document piece by piece
CrashOutcomes(after) == {state_file, TruncatedFile, FileOf(after)}

\* The process is killed inside a mutating method; the next process loads the file
Crash ==
    \E after \in MutationResults :
      \E file \in CrashOutcomes(after) :
        /\ state_file' = file
        /\ state' = _load_or_create_state(file, now)
        /\ crash_obs' = Observed(state', _load_or_create_state(state_file, now), after)
        /\ UNCHANGED <<now, targets, notSM>>

Next ==
    \/ Tick
    \/ \E tickers \in TickerLists : initialize_tickers(tickers)
    \/ \E t \in Tickers : start_ticker(t)
    \/ \E t \in Tickers, r \in 0..1, p \in 0..1 : complete_ticker(t, r, p)
    \/ \E t \in Tickers, e \in ErrorTexts, n \in {0, max_retries} : fail_ticker(t, e, n)
    \/ reset_state
    \/ Restart
    \/ Crash

\* the number of pending, in_progress, completed and failed that hold a target
Places(s, t) ==
    (IF InSeq(t, s.pending) THEN 1 ELSE 0)
    + (IF s.in_progress = t THEN 1 ELSE 0)
    + (IF InSeq(t, s.completed) THEN 1 ELSE 0)
    + (IF s.failed[t].present THEN 1 ELSE 0)

\* C1: every target id of the session is in exactly one of pending,
\* in_progress, completed and failed.
C1_ExactlyOnePlace == \A t \in targets : Places(state, t) = 1

\* C9: after a crash inside a mutating method the load of the state file
\* observes either the complete state of before the method or the complete
\* state of after it.
C9_CrashLeavesBeforeOrAfter == crash_obs \in {"none", "before", "after"}

\* ------------------------------------------------------------------------
\* UsageMonitor: the quota ledger
\* ------------------------------------------------------------------------
\* the monitor instances of one run: each fetcher constructs its own
Monitors == {"qqq", "constituents", "eod"}

\* the last calendar day modelled, and the length of a month of the model
MaxDay == 2

DaysPerMonth == 2

Days == 0..MaxDay

\* datetime.now().strftime('%Y-%m') of a day
MonthOf(d) == d \div DaysPerMonth

Months == {MonthOf(d) : d \in Days}

\* limits.get('daily_limit', ...) and limits.get('monthly_limit', ...): the
\* limits configured in the ledger specification
SmallDailyLimit == 3

SmallMonthlyLimit == 4

daily_limit == limits.daily_limit

monthly_limit == limits.monthly_limit

\* cap of the units a ledger accumulates in the ledger specification
MaxTotal == 5

\* the unit counts handed to record_usage and can_make_request
MaxUnits == 2

UnitChoices == 0..MaxUnits

EmptyLedger ==
    [daily |-> [d \in Days |-> 0], monthly |-> [m \in Months |-> 0], total |-> 0]

AbsentLedgerFile == [kind |-> "absent", content |-> EmptyLedger]

TruncatedLedgerFile == [kind |-> "truncated", content |-> EmptyLedger]

\* UsageMonitor._save_usage_data: the whole usage_data is dumped to the file
_save_usage_data(u) == [kind |-> "ledger", content |-> u]

\* UsageMonitor._load_usage_data: a missing or unreadable file gives an empty ledger
_load_usage_data(file) ==
    IF file.kind = "ledger" THEN file.content ELSE EmptyLedger

\* a daily usage that is not keyed by the date
usage_of_any_day(u, day) == u.total

daily_usage(u, day) == u.daily[day]

monthly_usage(u, day) == u.monthly[MonthOf(day)]

\* a record_usage that forgets the monthly counter
record_usage_daily_only(u, day, count) ==
    [u EXCEPT !.daily[day] = @ + count,
              !.total = @ + count]

\* the in-memory effect of record_usage
after_record_usage(u, day, count) ==
    [u EXCEPT !.daily[day] = @ + count,
              !.monthly[MonthOf(day)] = @ + count,
              !.total = @ + count]

\* a can_make_request that looks at the daily limit only
can_make_request_daily_only(u, day, estimated_count) ==
    IF daily_usage(u, day) + estimated_count > daily_limit THEN FALSE
    ELSE TRUE

\* what can_make_request returns
can_make_request_returns(u, day, estimated_count) ==
    IF daily_usage(u, day) + estimated_count > daily_limit THEN FALSE
    ELSE IF monthly_usage(u, day) + estimated_count > monthly_limit THEN FALSE
    ELSE TRUE

get_remaining_quota(u, day) ==
    [daily_remaining |-> daily_limit - daily_usage(u, day),
     monthly_remaining |-> monthly_limit - monthly_usage(u, day),
     daily_used |-> daily_usage(u, day),
     monthly_used |-> monthly_usage(u, day)]

NoCall == [op |-> "none", monitor |-> "qqq", n |-> 0, ok |-> FALSE, before |-> EmptyLedger]

NothingRecorded == [m \in Monitors |-> [d \in Days |-> 0]]

\* UsageMonitor.__init__ of every monitor, with limits l, and no ledger file yet
LedgerInit(l) ==
    /\ limits = l
    /\ today = 0
    /\ usage_file = AbsentLedgerFile
    /\ usage_data = [m \in Monitors |-> _load_usage_data(AbsentLedgerFile)]
    /\ loaded = _load_usage_data(AbsentLedgerFile)
    /\ recorded = NothingRecorded
    /\ answer = NoCall

QuotaInit ==
    LedgerInit([daily_limit |-> SmallDailyLimit, monthly_limit |-> SmallMonthlyLimit])

record_usage(m, count) ==
    /\ usage_data[m].total + count <= MaxTotal
    /\ usage_data' = [usage_data EXCEPT ![m] = after_record_usage(@, today, count)]
    /\ usage_file' = _save_usage_data(usage_data'[m])
    /\ recorded' = [recorded EXCEPT ![m][today] = @ + count]
    /\ answer' = [op |-> "record", monitor |-> m, n |-> count, ok |-> TRUE,
                  before |-> usage_data[m]]
    /\ UNCHANGED <<limits, today, loaded, notQuota>>

can_make_request(m, estimated_count) ==
    /\ answer' = [op |-> "ask", monitor |-> m, n |-> estimated_count,
                  ok |-> can_make_request_returns(usage_data[m], today, estimated_count),
                  before |-> usage_data[m]]
    /\ UNCHANGED <<limits, usage_data, usage_file, today, loaded, recorded, notQuota>>

\* midnight passes while the process runs
NextDay ==
    /\ today < MaxDay
    /\ today' = today + 1
    /\ answer' = NoCall
    /\ UNCHANGED <<limits, usage_data, usage_file, loaded, recorded, notQuota>>

\* a new process: every UsageMonitor.__init__ loads the ledger file
NewMonitors ==
    /\ usage_data' = [m \in Monitors |-> _load_usage_data(usage_file)]
    /\ loaded' = _load_usage_data(usage_file)
    /\ recorded' = NothingRecorded
    /\ answer' = NoCall
    /\ UNCHANGED <<limits, usage_file, today, notQuota>>

NextQuota ==
    \/ \E c \in UnitChoices : record_usage("qqq", c)
    \/ \E c \in UnitChoices : can_make_request("qqq", c)
    \/ NextDay
    \/ NewMonitors

\* the units a monitor recorded in the month of a day
RECURSIVE SumDays(_, _)
SumDays(f, ds) ==
    IF ds = {} THEN 0
    ELSE LET d == CHOOSE x \in ds : TRUE IN f[d] + SumDays(f, ds \ {d})

RecordedInMonth(m, day) ==
    SumDays(recorded[m], {d \in Days : MonthOf(d) = MonthOf(day)})

\* C6: within one day and month the daily and the monthly counter of a
\* UsageMonitor equal what the ledger held when the monitor was constructed
\* plus the sum of the units passed to record_usage, and after each
\* record_usage call the ledger file holds the same values.
C6_CountersAreSums ==
    /\ \A m \in Monitors :
         /\ daily_usage(usage_data[m], today)
              = daily_usage(loaded, today) + recorded[m][today]
         /\ monthly_usage(usage_data[m], today)
              = monthly_usage(loaded, today) + RecordedInMonth(m, today)
    /\ answer.op = "record" =>
         /\ usage_file.kind = "ledger"
         /\ usage_file.content = usage_data[answer.monitor]

\* several calls on one day, in a month that already holds an earlier day's units
C6_Witness ==
    /\ answer.op = "record"
    /\ recorded[answer.monitor][today] > MaxUnits
    /\ RecordedInMonth(answer.monitor, today) > recorded[answer.monitor][today]

\* C7: can_make_request(n) returns true exactly when the daily usage plus n is
\* within the daily limit and the monthly usage plus n is within the monthly
\* limit, and the call changes neither counter.
C7_CanMakeRequest ==
    /\ \A m \in Monitors, n \in UnitChoices :
         can_make_request_returns(usage_data[m], today, n)
           <=> /\ daily_usage(usage_data[m], today) + n <= daily_limit
               /\ monthly_usage(usage_data[m], today) + n <= monthly_limit
    /\ answer.op = "ask" =>
         /\ usage_data[answer.monitor] = answer.before
         /\ answer.ok
              <=> /\ daily_usage(answer.before, today) + answer.n <= daily_limit
                  /\ monthly_usage(answer.before, today) + answer.n <= monthly_limit

\* a request the monthly limit alone forbids
C7_Witness ==
    /\ answer.op = "ask"
    /\ ~answer.ok
    /\ daily_usage(usage_data[answer.monitor], today) + answer.n <= daily_limit
    /\ monthly_usage(usage_data[answer.monitor], today) + answer.n > monthly_limit

\* ------------------------------------------------------------------------
\* The fetch paths and the quota ledger
\* ------------------------------------------------------------------------
\* the limits configured in the fetch specification
FetchDailyLimit == 50

FetchMonthlyLimit == 80

\* cap of the units a ledger accumulates in the fetch specification
MaxFetchTotal == 75

\* len(tickers) of one expiry, at most
MaxChain == 2

\* len(self.OPTION_FIELDS) of QQQOptionsFetcher and len(self.EOD_FIELDS)
OPTION_FIELDS_LEN == 25

EOD_FIELDS_LEN == 15

\* fetch_historical_options: the estimate is for 60 days, the scope is reduced
\* to 10 options, and each historical row is charged 11 units
HISTORICAL_DAYS == 60

REDUCED_SCOPE == 10

HISTORICAL_ROW_UNITS == 11

\* len(self.equity_fields) and len(self.option_fields) of the constituents
\* configuration
EquityFieldsLen == 10

ConstituentOptionFieldsLen == 20

\* self.monitor.record_usage(count) called by the fetcher that owns monitor m
Charge(m, count) ==
    /\ usage_data[m].total + count <= MaxFetchTotal
    /\ usage_data' = [usage_data EXCEPT ![m] = after_record_usage(@, today, count)]
    /\ usage_file' = _save_usage_data(usage_data'[m])
    /\ recorded' = [recorded EXCEPT ![m][today] = @ + count]

NoCharge == UNCHANGED <<usage_data, usage_file, recorded>>

Fetched(m, estimated_usage, allowed) ==
    [op |-> "fetch", monitor |-> m, n |-> estimated_usage, ok |-> allowed,
     before |-> EmptyLedger]

\* QQQOptionsFetcher.fetch_options_chain, for len(tickers) option tickers of
\* which the provider returns rows
fetch_options_chain(tickers, rows) ==
    LET estimated_usage == tickers * OPTION_FIELDS_LEN
        allowed == can_make_request_returns(usage_data["qqq"], today, estimated_usage)
    IN  /\ rows <= tickers
        /\ IF ~allowed THEN NoCharge
           ELSE Charge("qqq", rows * OPTION_FIELDS_LEN)
        /\ answer' = Fetched("qqq", estimated_usage, allowed)
        /\ UNCHANGED <<limits, today, loaded, notQuota>>

\* QQQOptionsFetcher.fetch_historical_options, one expiry of its loop
fetch_historical_options(tickers, rows) ==
    LET estimated_usage == tickers * OPTION_FIELDS_LEN * HISTORICAL_DAYS
        allowed == can_make_request_returns(usage_data["qqq"], today, estimated_usage)
        filtered_tickers == IF ~allowed /\ tickers > REDUCED_SCOPE
                            THEN REDUCED_SCOPE ELSE tickers
    IN  /\ rows <= filtered_tickers
        /\ Charge("qqq", rows * HISTORICAL_ROW_UNITS)
        /\ answer' = Fetched("qqq", estimated_usage, allowed)
        /\ UNCHANGED <<limits, today, loaded, notQuota>>

\* EODGreeksFetcher.fetch_eod_greeks, one expiry of its loop with a non-empty
\* list of option tickers
fetch_eod_greeks(option_tickers) ==
    /\ option_tickers > 0
    /\ Charge("eod", option_tickers * EOD_FIELDS_LEN)
    /\ answer' = Fetched("eod", option_tickers * EOD_FIELDS_LEN, TRUE)
    /\ UNCHANGED <<limits, today, loaded, notQuota>>

\* ConstituentsFetcher.fetch_constituent_equity_data
fetch_constituent_equity_data(got_data) ==
    LET estimated_usage == EquityFieldsLen
        allowed == can_make_request_returns(usage_data["constituents"], today,
                                            estimated_usage)
    IN  /\ IF allowed /\ got_data THEN Charge("constituents", estimated_usage)
           ELSE NoCharge
        /\ answer' = Fetched("constituents", estimated_usage, allowed)
        /\ UNCHANGED <<limits, today, loaded, notQuota>>

\* ConstituentsFetcher.fetch_constituent_options, one expiry of its loop
fetch_constituent_options(option_tickers, rows) ==
    LET estimated_usage == option_tickers * ConstituentOptionFieldsLen
        allowed == can_make_request_returns(usage_data["constituents"], today,
                                            estimated_usage)
    IN  /\ rows <= option_tickers
        /\ IF allowed /\ rows > 0
           THEN Charge("constituents", rows * ConstituentOptionFieldsLen)
           ELSE NoCharge
        /\ answer' = Fetched("constituents", estimated_usage, allowed)
        /\ UNCHANGED <<limits, today, loaded, notQuota>>

NextFetch ==
    \/ \E n \in 1..MaxChain, r \in 0..MaxChain : fetch_options_chain(n, r)
    \/ \E n \in 1..MaxChain, r \in 0..MaxChain : fetch_historical_options(n, r)
    \/ \E n \in 1..MaxChain : fetch_eod_greeks(n)
    \/ \E g \in BOOLEAN : fetch_constituent_equity_data(g)
    \/ \E n \in 1..MaxChain, r \in 0..MaxChain : fetch_constituent_options(n, r)

\* C3: on every fetch path the recorded daily and monthly consumption stay
\* within the configured daily and monthly limits.
C3_WithinLimits ==
    \A m \in Monitors :
        /\ daily_usage(usage_data[m], today) <= daily_limit
        /\ monthly_usage(usage_data[m], today) <= monthly_limit

\* ------------------------------------------------------------------------
\* The retry loops of RobustFetcher and ConstituentsFetcher
\* ------------------------------------------------------------------------
\* get_constituent_tickers(): the configured constituents, in order
Constituents == <<"AAPL", "MSFT">>

FetchTargets == {"QQQ"} \cup SeqSet(Constituents)

\* the processes started, at most
MaxRuns == 2

\* the attempts on one target the model follows beyond max_retries
ExtraAttempts == 1

\* what one attempt on a target ends with
Outcomes == {"data", "no_data", "exception"}

NoResults == [successful |-> <<>>, failed |-> <<>>]

NoAttempts == [t \in FetchTargets |-> 0]

SessionInit ==
    /\ pc = "stopped"
    /\ resume = FALSE
    /\ runs = 0
    /\ called = {}
    /\ retry_count = 0
    /\ idx = 1
    /\ results = NoResults
    /\ qqq_result = "none"
    /\ attempts = NoAttempts
    /\ done_before = {}

\* the targets the running process has completed
CompletedNow ==
    (IF qqq_result = "success" THEN {"QQQ"} ELSE {}) \cup SeqSet(results.successful)

\* a process is started, with or without --resume: RobustFetcher.__init__
\* constructs the FetchStateManager, which loads the state file
StartRun(r) ==
    /\ pc = "stopped"
    /\ runs < MaxRuns
    /\ runs' = runs + 1
    /\ resume' = r
    /\ pc' = "idle"
    /\ state' = _load_or_create_state(state_file, now)
    /\ UNCHANGED <<called, retry_count, idx, results, qqq_result, attempts, done_before>>
    /\ UNCHANGED <<state_file, now, targets, crash_obs, quotaVars, storeVars, runVars, tryVars, askVars, logVars>>

\* the process is killed, or ends: what it held in memory is gone
Kill ==
    /\ pc # "stopped"
    /\ pc' = "stopped"
    /\ done_before' = done_before \cup CompletedNow
    /\ called' = {}
    /\ retry_count' = 0
    /\ idx' = 1
    /\ results' = NoResults
    /\ qqq_result' = "none"
    /\ attempts' = NoAttempts
    /\ UNCHANGED <<resume, runs, smVars, quotaVars, storeVars, runVars, tryVars, askVars, logVars>>

\* RobustFetcher._fetch_qqq_with_recovery is entered: retry_count = 0
_fetch_qqq_with_recovery ==
    /\ pc = "idle"
    /\ "qqq" \notin called
    /\ pc' = "qqq"
    /\ called' = called \cup {"qqq"}
    /\ retry_count' = 0
    /\ UNCHANGED <<resume, runs, idx, results, qqq_result, attempts, done_before>>
    /\ UNCHANGED <<smVars, quotaVars, storeVars, runVars, tryVars, askVars, logVars>>

\* one pass of the while loop of _fetch_qqq_with_recovery
qqq_attempt(outcome) ==
    /\ pc = "qqq"
    /\ retry_count < max_retries
    /\ attempts["QQQ"] < max_retries + ExtraAttempts
    /\ attempts' = [attempts EXCEPT !["QQQ"] = @ + 1]
    /\ CASE outcome = "data" ->
              /\ state.records_fetched + 1 <= MaxStat
              /\ state.api_points_used + 1 <= MaxStat
              /\ state' = after_complete_ticker(state, "QQQ", 1, 1)
              /\ state_file' = save_state(state')
              /\ qqq_result' = "success"
              /\ pc' = "idle"
              /\ UNCHANGED retry_count
         [] outcome = "no_data" ->
              UNCHANGED <<state, state_file, qqq_result, pc, retry_count>>
         [] outcome = "exception" ->
              /\ retry_count' = retry_count + 1
              /\ IF retry_count' < max_retries
                 THEN UNCHANGED <<state, state_file, qqq_result, pc>>
                 ELSE /\ state.errors_encountered + 1 <= MaxStat
                      /\ \E e \in ErrorTexts :
                           state' = after_fail_ticker(state, "QQQ", e, retry_count')
                      /\ state_file' = save_state(state')
                      /\ qqq_result' = "failed"
                      /\ pc' = "idle"
    /\ UNCHANGED <<resume, runs, called, idx, results, done_before>>
    /\ UNCHANGED <<now, targets, crash_obs, quotaVars, storeVars, runVars, tryVars, askVars, logVars>>

\* ConstituentsFetcher.fetch_all_constituents is entered; its resume argument
\* is logged and otherwise unused
fetch_all_constituents ==
    /\ pc = "idle"
    /\ "constituents" \notin called
    /\ pc' = "constituents"
    /\ called' = called \cup {"constituents"}
    /\ idx' = 1
    /\ retry_count' = 0
    /\ results' = NoResults
    /\ UNCHANGED <<resume, runs, qqq_result, attempts, done_before>>
    /\ UNCHANGED <<smVars, quotaVars, storeVars, runVars, tryVars, askVars, logVars>>

\* a pass that stays on a ticker after its success
constituent_attempt_staying(outcome) ==
    LET ticker == Constituents[idx]
    IN  /\ pc = "constituents"
        /\ idx <= Len(Constituents)
        /\ retry_count < max_retries
        /\ attempts[ticker] < max_retries + ExtraAttempts
        /\ attempts' = [attempts EXCEPT ![ticker] = @ + 1]
        /\ IF outcome = "data"
           THEN /\ results' = [results EXCEPT !.successful = Append(@, ticker)]
                /\ retry_count' = retry_count + 1
                /\ UNCHANGED <<idx, pc>>
           ELSE IF retry_count + 1 < max_retries
                THEN /\ retry_count' = retry_count + 1
                     /\ UNCHANGED <<results, idx, pc>>
                ELSE /\ results' = [results EXCEPT !.failed = Append(@, ticker)]
                     /\ idx' = idx + 1
                     /\ retry_count' = 0
                     /\ pc' = IF idx = Len(Constituents) THEN "idle" ELSE "constituents"
        /\ UNCHANGED <<resume, runs, called, qqq_result, done_before>>
        /\ UNCHANGED <<smVars, quotaVars, storeVars, runVars, tryVars, askVars, logVars>>

\* a pass that does not count a failed attempt
constituent_attempt_not_counting(outcome) ==
    LET ticker == Constituents[idx]
    IN  /\ pc = "constituents"
        /\ idx <= Len(Constituents)
        /\ retry_count < max_retries
        /\ attempts[ticker] < max_retries + ExtraAttempts
        /\ attempts' = [attempts EXCEPT ![ticker] = @ + 1]
        /\ IF outcome = "data"
           THEN /\ results' = [results EXCEPT !.successful = Append(@, ticker)]
                /\ idx' = idx + 1
                /\ retry_count' = 0
                /\ pc' = IF idx = Len(Constituents) THEN "idle" ELSE "constituents"
           ELSE UNCHANGED <<retry_count, results, idx, pc>>
        /\ UNCHANGED <<resume, runs, called, qqq_result, done_before>>
        /\ UNCHANGED <<smVars, quotaVars, storeVars, runVars, tryVars, askVars, logVars>>

\* one pass of the while loop of fetch_all_constituents on the current ticker;
\* an empty answer raises "No options data fetched" and is handled as an exception
constituent_attempt(outcome) ==
    LET ticker == Constituents[idx]
        proceed == /\ idx' = idx + 1
                   /\ retry_count' = 0
                   /\ pc' = IF idx = Len(Constituents) THEN "idle" ELSE "constituents"
    IN  /\ pc = "constituents"
        /\ idx <= Len(Constituents)
        /\ retry_count < max_retries
        /\ attempts[ticker] < max_retries + ExtraAttempts
        /\ attempts' = [attempts EXCEPT ![ticker] = @ + 1]
        /\ IF outcome = "data"
           THEN /\ results' = [results EXCEPT !.successful = Append(@, ticker)]
                /\ proceed
           ELSE IF retry_count + 1 < max_retries
                THEN /\ retry_count' = retry_count + 1
                     /\ UNCHANGED <<results, idx, pc>>
                ELSE /\ results' = [results EXCEPT !.failed = Append(@, ticker)]
                     /\ proceed
        /\ UNCHANGED <<resume, runs, called, qqq_result, done_before>>
        /\ UNCHANGED <<smVars, quotaVars, storeVars, runVars, tryVars, askVars, logVars>>

NextSession ==
    \/ \E r \in BOOLEAN : StartRun(r)
    \/ Kill
    \/ _fetch_qqq_with_recovery
    \/ \E o \in Outcomes : qqq_attempt(o)
    \/ fetch_all_constituents
    \/ \E o \in Outcomes : constituent_attempt(o)

\* C2: a process restarted with resume = true fetches no target that an
\* earlier process of the session had completed before it was killed.
C2_ResumeSkipsCompleted ==
    (pc # "stopped" /\ resume) => \A t \in done_before : attempts[t] = 0

\* C4: a target whose attempts all failed and that has been attempted
\* max_retries times has been attempted exactly max_retries times, is recorded
\* as failed (QQQ with retry_count = max_retries) and its loop has moved on.
C4_AlwaysFailingEndsFailed ==
    /\ (attempts["QQQ"] >= max_retries /\ qqq_result # "success") =>
          /\ attempts["QQQ"] = max_retries
          /\ pc # "qqq"
          /\ state.failed["QQQ"].present
          /\ state.failed["QQQ"].retry_count = max_retries
    /\ \A i \in 1..Len(Constituents) :
          (/\ attempts[Constituents[i]] >= max_retries
           /\ ~InSeq(Constituents[i], results.successful)) =>
              /\ attempts[Constituents[i]] = max_retries
              /\ InSeq(Constituents[i], results.failed)
              /\ (pc # "constituents" \/ idx > i)

\* C5: no target is attempted more than max_retries times, and after
\* max_retries attempts the loop has left the target.
C5_AttemptsWithinBudget ==
    /\ attempts["QQQ"] <= max_retries
    /\ (attempts["QQQ"] = max_retries => pc # "qqq")
    /\ \A i \in 1..Len(Constituents) :
          /\ attempts[Constituents[i]] <= max_retries
          /\ (attempts[Constituents[i]] = max_retries
                => (pc # "constituents" \/ idx > i))

\* ------------------------------------------------------------------------
\* DataProcessor.validate_data and DatabaseManager.save_options_data
\* ------------------------------------------------------------------------
\* a price: a number, or NaN / NULL
Price(v) == [null |-> FALSE, v |-> v]

NaN == [null |-> TRUE, v |-> 0]

\* pandas comparison: false when either side is NaN
Gt(a, b) == ~a.null /\ ~b.null /\ a.v > b.v

\* the expiry days of the two option contracts of the model
NearExpiry == 1

FarExpiry == 2

Contracts ==
    {[ticker |-> "QQQ C1", expiry |-> NearExpiry],
     [ticker |-> "QQQ C2", expiry |-> FarExpiry]}

\* the bid and ask values the provider returns
RawBids == {Price(-1), Price(1), Price(2)}

RawAsks == {Price(1), Price(3)}

\* the raw records differ in bid and ask; their Greeks are the same
RawRecords ==
    {[ticker |-> c.ticker, expiry |-> c.expiry, bid |-> b, ask |-> a,
      delta |-> 1, rho |-> 1] :
        c \in Contracts, b \in RawBids, a \in RawAsks}

\* the frames handed to validate_data: one or two records
RawFrames == {<<r>> : r \in RawRecords} \cup {<<r, s>> : r \in RawRecords, s \in RawRecords}

\* the rows the options_data table holds in the model, at most
MaxRows == 2

\* DataProcessor._clean_prices: negative bid and ask become NaN
_clean_prices(r) ==
    [r EXCEPT !.bid = IF ~@.null /\ @.v < 0 THEN NaN ELSE @,
              !.ask = IF ~@.null /\ @.v < 0 THEN NaN ELSE @]

\* DataProcessor._calculate_derived_fields: spread = ask - bid, and
\* days_to_expiry = (expiry_date - datetime.now()).days, which counts whole
\* days: the expiry date is a midnight, now is the day plus the time of day
_calculate_derived_fields(r, day, midnight) ==
    [ticker |-> r.ticker, expiry |-> r.expiry, bid |-> r.bid, ask |-> r.ask,
     delta |-> r.delta, rho |-> r.rho,
     spread |-> IF r.bid.null \/ r.ask.null THEN NaN ELSE Price(r.ask.v - r.bid.v),
     days_to_expiry |-> IF midnight THEN r.expiry - day ELSE r.expiry - day - 1]

\* spread_pct = spread / ask * 100 exceeds 50
ExtremeSpread(r) ==
    /\ ~r.spread.null
    /\ \/ r.ask.v > 0 /\ r.spread.v * 100 > 50 * r.ask.v
       \/ r.ask.v = 0 /\ r.spread.v > 0

\* the filters of _remove_invalid_records that apply to the columns a frame of
\* the model carries; its implied-volatility and volume / open-interest filters
\* look at columns these frames do not have
Invalid(r) == Gt(r.bid, r.ask) \/ r.days_to_expiry <= 0 \/ ExtremeSpread(r)

\* a filter that keeps records with bid > ask
remove_all_but_crossed(df) ==
    SelectSeq(df, LAMBDA r : ~(r.days_to_expiry <= 0 \/ ExtremeSpread(r)))

\* DataProcessor._remove_invalid_records
_remove_invalid_records(df) == SelectSeq(df, LAMBDA r : ~Invalid(r))

\* DataProcessor.validate_data of a non-empty frame
validate_data(df, day, midnight) ==
    _remove_invalid_records(
        [i \in 1..Len(df) |-> _calculate_derived_fields(_clean_prices(df[i]), day, midnight)])

\* df['fetch_date'] = datetime.now().date(), and the columns the table keeps
Stamp(df, day) ==
    [i \in 1..Len(df) |->
        [ticker |-> df[i].ticker, fetch_date |-> day, expiry |-> df[i].expiry,
         bid |-> df[i].bid, ask |-> df[i].ask,
         delta |-> df[i].delta, rho |-> df[i].rho]]

Key(row) == <<row.ticker, row.fetch_date>>

\* UNIQUE(ticker, fetch_date): the multi-row INSERT of to_sql raises
\* IntegrityError, and inserts nothing, when a key would occur twice
ViolatesUnique(rows, new) ==
    \/ \E i \in 1..Len(rows), j \in 1..Len(new) : Key(rows[i]) = Key(new[j])
    \/ \E i \in 1..Len(new), j \in 1..Len(new) : i # j /\ Key(new[i]) = Key(new[j])

\* DatabaseManager._update_existing_records: one UPDATE per record of the
\* frame, in order, on the rows with its key. The UPDATE sets bid, ask, last,
\* volume, open_interest, implied_vol, delta, gamma, theta and vega: bid, ask
\* and delta of the model rows, and not rho
_update_existing_records(rows, new) ==
    [i \in 1..Len(rows) |->
        LET hits == {j \in 1..Len(new) : Key(new[j]) = Key(rows[i])}
        IN  IF hits = {} THEN rows[i]
            ELSE LET j == CHOOSE k \in hits : \A h \in hits : h <= k
                 IN  [rows[i] EXCEPT !.bid = new[j].bid, !.ask = new[j].ask,
                                     !.delta = new[j].delta]]

\* a table without the UNIQUE constraint: every save appends
insert_without_unique(rows, df, day) == rows \o Stamp(df, day)

\* what save_options_data leaves in the table
after_save_options_data(rows, df, day) ==
    IF Len(df) = 0 THEN rows
    ELSE IF ViolatesUnique(rows, Stamp(df, day))
         THEN _update_existing_records(rows, Stamp(df, day))
         ELSE rows \o Stamp(df, day)

NoRepeat == [ticker |-> "", day |-> 0, n |-> 0]

StoreInit ==
    /\ options_data = <<>>
    /\ repeat = NoRepeat
    /\ last_saved = <<>>
    /\ saved_over = <<>>

\* validate_data(raw) followed by save_options_data, as every caller does.
\* The wall clock is in the day, exactly at its midnight, or so shortly
\* before the next midnight that the save is stamped with the next day.
\* A to_sql error other than IntegrityError propagates and commits nothing:
\* the table is left as it was.
validate_and_save(raw, clock) ==
    LET df == validate_data(raw, today, clock = "midnight")
        save_day == IF clock = "before_midnight" THEN today + 1 ELSE today
    IN  /\ save_day <= MaxDay
        /\ Len(options_data) + Len(df) <= MaxRows
        /\ options_data' = after_save_options_data(options_data, df, save_day)
        /\ today' = save_day
        /\ repeat' = IF Len(df) # 1 THEN NoRepeat
                     ELSE [ticker |-> df[1].ticker, day |-> save_day,
                           n |-> IF repeat.n >= 1 /\ repeat.ticker = df[1].ticker
                                    /\ repeat.day = save_day
                                 THEN 2 ELSE 1]
        /\ UNCHANGED <<last_saved, saved_over>>
        /\ UNCHANGED <<limits, usage_data, usage_file, loaded, recorded, answer>>
        /\ UNCHANGED <<smVars, sessVars, runVars, tryVars, askVars, logVars>>

NextStore ==
    \/ \E raw \in RawFrames, clock \in {"day", "midnight", "before_midnight"} :
         validate_and_save(raw, clock)
    \/ NextDay

RowsWithKey(ticker, day) ==
    {i \in 1..Len(options_data) : Key(options_data[i]) = <<ticker, day>>}

\* C8: no two rows of options_data share a (ticker, fetch_date) key, and after
\* a record was saved once or several times on a day the table holds exactly
\* one row with its key.
C8_OneRowPerKey ==
    /\ \A i, j \in 1..Len(options_data) :
          i # j => Key(options_data[i]) # Key(options_data[j])
    /\ repeat.n >= 1 => Cardinality(RowsWithKey(repeat.ticker, repeat.day)) = 1

\* the same record was saved a second time
C8_Witness ==
    /\ repeat.n >= 2
    /\ Cardinality(RowsWithKey(repeat.ticker, repeat.day)) = 1

\* C10: every committed row has bid <= ask when both are present, and its
\* fetch_date is not after its expiry.
C10_CommittedRowsValid ==
    \A i \in 1..Len(options_data) :
        /\ (~options_data[i].bid.null /\ ~options_data[i].ask.null)
              => options_data[i].bid.v <= options_data[i].ask.v
        /\ options_data[i].fetch_date <= options_data[i].expiry

\* committed rows with bid below ask, one of them stamped on its expiry's eve
\* after midnight passed between validation and save
C10_Witness ==
    /\ \E i \in 1..Len(options_data) :
          /\ ~options_data[i].bid.null /\ ~options_data[i].ask.null
          /\ options_data[i].bid.v < options_data[i].ask.v
    /\ \E i \in 1..Len(options_data) :
          /\ options_data[i].fetch_date > 0
          /\ options_data[i].fetch_date + 1 = options_data[i].expiry

\* ------------------------------------------------------------------------
\* RobustFetcher.fetch_all and main of scripts/robust_fetch.py
\* ------------------------------------------------------------------------
\* The bodies of main and fetch_all are followed as written, from a
\* constructed RobustFetcher. (As the file stands the class body raises
\* NameError on its Optional and Dict annotations, which are imported only
\* under __main__ after the class, and __init__ calls UsageMonitor() without
\* its limits argument.)
\* main has not returned
NoExit == -1

\* --qqq-only and --constituents-only
Flags == [qqq : BOOLEAN, constituents : BOOLEAN]

NoInterrupt == "none"

RunInit ==
    /\ include = [qqq |-> TRUE, constituents |-> TRUE]
    /\ connection = "none"
    /\ errors = <<>>
    /\ exit_code = NoExit
    /\ interrupt = NoInterrupt

\* main: RobustFetcher is constructed, its FetchStateManager loads the state
\* file, and fetch_all starts with empty results
main(r, flags) ==
    /\ pc \in {"stopped", "exited"}
    /\ runs < MaxRuns
    /\ runs' = runs + 1
    /\ resume' = r
    /\ include' = flags
    /\ pc' = "connecting"
    /\ state' = _load_or_create_state(state_file, now)
    /\ done_before' = done_before \cup CompletedNow
    /\ called' = {}
    /\ retry_count' = 0
    /\ idx' = 1
    /\ results' = NoResults
    /\ qqq_result' = "none"
    /\ attempts' = NoAttempts
    /\ connection' = "none"
    /\ errors' = <<>>
    /\ exit_code' = NoExit
    /\ interrupt' = NoInterrupt
    /\ UNCHANGED <<state_file, now, targets, crash_obs, quotaVars, storeVars, tryVars, askVars, logVars>>

\* fetch_all calls _connect_bloomberg, which tries three times; when it
\* returns False fetch_all logs and returns results as they are
_connect_bloomberg(ok) ==
    /\ pc = "connecting"
    /\ connection' = IF ok THEN "connected" ELSE "failed"
    /\ pc' = IF ok THEN "idle" ELSE "returned"
    /\ UNCHANGED <<include, errors, exit_code, interrupt>>
    /\ UNCHANGED <<resume, runs, called, retry_count, idx, results, qqq_result,
                   attempts, done_before>>
    /\ UNCHANGED <<smVars, quotaVars, storeVars, tryVars, askVars, logVars>>

\* if include_qqq: results['qqq'] = self._fetch_qqq_with_recovery(save_to_db)
fetch_all_qqq ==
    /\ connection = "connected"
    /\ include.qqq
    /\ _fetch_qqq_with_recovery

\* the QQQ part of fetch_all is over
qqq_part_over == pc = "idle" /\ connection = "connected" /\ (include.qqq => "qqq" \in called)

\* if include_constituents: _check_api_budget calls
\* self.monitor.get_remaining_daily(), which UsageMonitor does not define; the
\* AttributeError reaches "except Exception" of fetch_all
_check_api_budget ==
    /\ qqq_part_over
    /\ include.constituents
    /\ errors' = Append(errors, "AttributeError")
    /\ pc' = "returned"
    /\ UNCHANGED <<include, connection, exit_code, interrupt>>
    /\ UNCHANGED <<resume, runs, called, retry_count, idx, results, qqq_result,
                   attempts, done_before>>
    /\ UNCHANGED <<smVars, quotaVars, storeVars, tryVars, askVars, logVars>>

\* without constituents fetch_all adds up the totals and returns
fetch_all_returns ==
    /\ qqq_part_over
    /\ ~include.constituents
    /\ pc' = "returned"
    /\ UNCHANGED runVars
    /\ UNCHANGED <<resume, runs, called, retry_count, idx, results, qqq_result,
                   attempts, done_before>>
    /\ UNCHANGED <<smVars, quotaVars, storeVars, tryVars, askVars, logVars>>

\* except KeyboardInterrupt of fetch_all: the interrupt arrives inside the try
\* block; save_checkpoint, then the finally block, then results are returned
fetch_all_KeyboardInterrupt ==
    /\ pc \in {"connecting", "idle", "qqq"}
    /\ Len(state.checkpoints) < MaxCheckpoints
    /\ state' = after_save_checkpoint(state)
    /\ state_file' = save_state(state')
    /\ interrupt' = pc
    /\ pc' = "returned"
    /\ UNCHANGED <<include, connection, errors, exit_code>>
    /\ UNCHANGED <<resume, runs, called, retry_count, idx, results, qqq_result,
                   attempts, done_before>>
    /\ UNCHANGED <<now, targets, crash_obs, quotaVars, storeVars, tryVars, askVars, logVars>>

\* except KeyboardInterrupt of main: the interrupt arrives in the finally
\* block of fetch_all (disconnect, summary, export)
main_KeyboardInterrupt ==
    /\ pc = "returned"
    /\ interrupt = NoInterrupt
    /\ interrupt' = "finally"
    /\ exit_code' = 130
    /\ pc' = "exited"
    /\ UNCHANGED <<include, connection, errors>>
    /\ UNCHANGED <<resume, runs, called, retry_count, idx, results, qqq_result,
                   attempts, done_before>>
    /\ UNCHANGED <<smVars, quotaVars, storeVars, tryVars, askVars, logVars>>

\* main: if results.get('errors'): return 1; return 0
main_returns ==
    /\ pc = "returned"
    /\ exit_code' = IF errors # <<>> THEN 1 ELSE 0
    /\ pc' = "exited"
    /\ UNCHANGED <<include, connection, errors, interrupt>>
    /\ UNCHANGED <<resume, runs, called, retry_count, idx, results, qqq_result,
                   attempts, done_before>>
    /\ UNCHANGED <<smVars, quotaVars, storeVars, tryVars, askVars, logVars>>

NextRun ==
    \/ \E r \in BOOLEAN, flags \in Flags : main(r, flags)
    \/ \E ok \in BOOLEAN : _connect_bloomberg(ok)
    \/ fetch_all_qqq
    \/ \E o \in Outcomes : qqq_attempt(o)
    \/ _check_api_budget
    \/ fetch_all_returns
    \/ fetch_all_KeyboardInterrupt
    \/ main_KeyboardInterrupt
    \/ main_returns

\* the targets of the fetch_all call, in the order it takes them
RunTargets ==
    (IF include.qqq THEN <<"QQQ">> ELSE <<>>)
        \o (IF include.constituents THEN Constituents ELSE <<>>)

\* the targets the running process has recorded as failed
FailedNow ==
    (IF qqq_result = "failed" THEN {"QQQ"} ELSE {}) \cup SeqSet(results.failed)

\* C11: no failure of a target escapes fetch_all or aborts it. A target whose
\* max_retries attempts all failed has been left by its loop; and when
\* fetch_all has returned after connecting, without a user interrupt, and a
\* target had failing attempts, nothing is in errors, that target is recorded
\* as failed or successful and every other target of the run was processed.
C11_TargetFailureContained ==
    /\ pc = "qqq" => attempts["QQQ"] < max_retries
    /\ (/\ pc \in {"returned", "exited"}
        /\ connection = "connected"
        /\ interrupt = NoInterrupt
        /\ \E t \in SeqSet(RunTargets) : attempts[t] > 0 /\ t \notin CompletedNow)
           => /\ errors = <<>>
              /\ \A t \in SeqSet(RunTargets) : t \in CompletedNow \cup FailedNow

\* C12: when the initial connect fails fetch_all returns without attempting
\* any target, with an empty result and exactly one error in errors.
C12_ConnectFailureReported ==
    (connection = "failed" /\ pc \in {"returned", "exited"})
        => /\ \A t \in FetchTargets : attempts[t] = 0
           /\ called = {}
           /\ qqq_result = "none"
           /\ results = NoResults
           /\ Len(errors) = 1

\* C13: when main has returned from a run that no user interrupt ended, its
\* exit code is zero if and only if the returned result has no failed target.
C13_ExitCodeZeroIffNoFailed ==
    (exit_code # NoExit /\ interrupt = NoInterrupt)
        => (exit_code = 0 <=> FailedNow = {})

\* what a resume should start with after the interrupt: the target fetch_all
\* was working on, else the first target of the run not yet completed or failed
ExpectedResumePoint ==
    IF interrupt = "qqq" THEN "QQQ"
    ELSE LET open == SelectSeq(RunTargets, LAMBDA t : t \notin CompletedNow \cup FailedNow)
         IN  IF Len(open) > 0 THEN open[1] ELSE None

\* C20: after a user interrupt of fetch_all the state file holds a checkpoint,
\* and get_resume_point of the next process returns the target that was in
\* progress, or else the first target not yet completed or failed.
C20_InterruptLeavesResumePoint ==
    interrupt # NoInterrupt =>
        /\ Len(_load_or_create_state(state_file, now).checkpoints) > 0
        /\ get_resume_point(_load_or_create_state(state_file, now)) = ExpectedResumePoint

\* ------------------------------------------------------------------------
\* One attempt of fetch_all_constituents, with its quota checks and charges
\* ------------------------------------------------------------------------
\* the expiries _get_expiry_dates_within_months returns, in the model
NumExpiries == 2

TryInit ==
    /\ refused = {}
    /\ late_requests = {}
    /\ fail_error = [t \in SeqSet(Constituents) |-> ""]
    /\ charged = [t \in SeqSet(Constituents) |-> 0]
    /\ success_units = [t \in SeqSet(Constituents) |-> 0]

\* fetch_constituent_equity_data on ledger u: the quota check, the request,
\* and record_usage when the provider returned data
equity_step(u, got_data) ==
    LET allowed == can_make_request_returns(u, today, EquityFieldsLen)
    IN  [allowed |-> allowed,
         data |-> allowed /\ got_data,
         ledger |-> IF allowed /\ got_data
                    THEN after_record_usage(u, today, EquityFieldsLen) ELSE u]

\* one expiry of the loop of fetch_constituent_options on ledger u
expiry_step(u, option_tickers, rows) ==
    LET allowed == can_make_request_returns(u, today,
                       option_tickers * ConstituentOptionFieldsLen)
    IN  [allowed |-> allowed,
         rows |-> IF allowed THEN rows ELSE 0,
         ledger |-> IF allowed /\ rows > 0
                    THEN after_record_usage(u, today, rows * ConstituentOptionFieldsLen)
                    ELSE u]

\* the expiries from the k-th on: a refusal breaks the loop
RECURSIVE expiry_loop(_, _, _, _)
expiry_loop(u, option_tickers, rows, k) ==
    IF k > Len(rows) THEN [ledger |-> u, rows |-> 0, refused |-> FALSE]
    ELSE LET step == expiry_step(u, option_tickers, rows[k])
         IN  IF ~step.allowed THEN [ledger |-> u, rows |-> 0, refused |-> TRUE]
             ELSE LET rest == expiry_loop(step.ledger, option_tickers, rows, k + 1)
                  IN  [ledger |-> rest.ledger, rows |-> step.rows + rest.rows,
                       refused |-> rest.refused]

\* the try block of one pass of the while loop of fetch_all_constituents:
\* equity data, then (with a spot price) the options of every expiry; without
\* a spot price fetch_constituent_options asks for the equity data once more
\* and returns an empty frame
try_block(u, got_data, option_tickers, rows) ==
    LET equity == equity_step(u, got_data)
        options == expiry_loop(equity.ledger, option_tickers, rows, 1)
    IN  IF equity.data
        THEN [ledger |-> options.ledger, rows |-> options.rows,
              refused |-> options.refused, requested |-> TRUE]
        ELSE [ledger |-> u, rows |-> 0,
              refused |-> ~equity.allowed, requested |-> equity.allowed]

\* one pass of the while loop of fetch_all_constituents on the current ticker,
\* without the results dictionary's total_api_points;
\* raises: validate_data or save_options_data raised on the fetched frame
process_constituent_pass(got_data, option_tickers, rows, raises) ==
    LET ticker == Constituents[idx]
        u == usage_data["constituents"]
        try == try_block(u, got_data, option_tickers, rows)
        units == try.ledger.total - u.total
        success == try.rows > 0 /\ ~raises
        proceed == /\ idx' = idx + 1
                   /\ retry_count' = 0
                   /\ pc' = IF idx = Len(Constituents) THEN "idle" ELSE "constituents"
    IN  /\ pc = "constituents"
        /\ idx <= Len(Constituents)
        /\ retry_count < max_retries
        /\ \A k \in 1..Len(rows) : rows[k] <= option_tickers
        /\ try.ledger.total <= MaxFetchTotal
        /\ attempts' = [attempts EXCEPT ![ticker] = @ + 1]
        /\ usage_data' = [usage_data EXCEPT !["constituents"] = try.ledger]
        /\ usage_file' = IF units > 0 THEN _save_usage_data(try.ledger) ELSE usage_file
        /\ recorded' = [recorded EXCEPT !["constituents"][today] = @ + units]
        /\ refused' = IF try.refused THEN refused \cup {ticker} ELSE refused
        /\ late_requests' = IF ticker \in refused /\ try.requested
                            THEN late_requests \cup {ticker} ELSE late_requests
        /\ charged' = [charged EXCEPT ![ticker] = @ + units]
        /\ IF success
           THEN /\ results' = [results EXCEPT !.successful = Append(@, ticker)]
                /\ success_units' = [success_units EXCEPT ![ticker] = units]
                /\ proceed
                /\ UNCHANGED fail_error
           ELSE /\ UNCHANGED success_units
                /\ IF retry_count + 1 < max_retries
                   THEN /\ retry_count' = retry_count + 1
                        /\ UNCHANGED <<results, idx, pc, fail_error>>
                   ELSE /\ results' = [results EXCEPT !.failed = Append(@, ticker)]
                        /\ fail_error' = [fail_error EXCEPT ![ticker] =
                               IF try.rows = 0 THEN "No options data fetched"
                               ELSE "validation or save error"]
                        /\ proceed
        /\ UNCHANGED <<resume, runs, called, qqq_result, done_before>>
        /\ UNCHANGED <<limits, today, loaded, answer>>
        /\ UNCHANGED <<smVars, storeVars, runVars, logVars>>

\* the pass, in the specifications that do not follow total_api_points
process_constituent(got_data, option_tickers, rows, raises) ==
    /\ process_constituent_pass(got_data, option_tickers, rows, raises)
    /\ UNCHANGED askVars

\* the rows the provider returns for the expiries of one attempt
RowChoices == [1..NumExpiries -> 0..MaxChain]

NextAttempt ==
    \/ \E r \in BOOLEAN : StartRun(r)
    \/ fetch_all_constituents
    \/ \E g, x \in BOOLEAN, n \in 1..MaxChain, rows \in RowChoices :
         process_constituent(g, n, rows, x)

\* C14: once can_make_request has returned False for a constituent, no
\* provider request is issued for it any more, and when the loop has left it
\* the constituent is in failed, given up with the reason "quota".
C14_RefusedTargetNotFetched ==
    \A i \in 1..Len(Constituents) :
        Constituents[i] \in refused =>
            /\ Constituents[i] \notin late_requests
            /\ (pc # "constituents" \/ idx > i) =>
                  /\ InSeq(Constituents[i], results.failed)
                  /\ fail_error[Constituents[i]] = "quota"

\* C15: a failed attempt adds no units to the ledger: a constituent that
\* succeeded was charged the units of its successful attempt, any other
\* constituent was charged nothing.
C15_FailedAttemptsChargeNothing ==
    \A t \in SeqSet(Constituents) :
        charged[t] = IF InSeq(t, results.successful) THEN success_units[t] ELSE 0

\* ------------------------------------------------------------------------
\* DatabaseManager.save_options_data called with a frame of its own
\* ------------------------------------------------------------------------
\* two quotes of a contract: every column differs between them
Quotes ==
    {[bid |-> Price(1), ask |-> Price(3), delta |-> 1, rho |-> 1],
     [bid |-> Price(2), ask |-> Price(4), delta |-> 2, rho |-> 2]}

SaveRecords ==
    {[ticker |-> c.ticker, expiry |-> c.expiry, bid |-> q.bid, ask |-> q.ask,
      delta |-> q.delta, rho |-> q.rho] : c \in Contracts, q \in Quotes}

\* the frames handed to save_options_data: one or two records
SaveFrames ==
    {<<r>> : r \in SaveRecords} \cup {<<r, s>> : r \in SaveRecords, s \in SaveRecords}

\* DatabaseManager.save_options_data(df) on the current day
save_options_data(df) ==
    /\ Len(after_save_options_data(options_data, df, today)) <= MaxRows
    /\ options_data' = after_save_options_data(options_data, df, today)
    /\ last_saved' = Stamp(df, today)
    /\ saved_over' = options_data
    /\ UNCHANGED repeat
    /\ UNCHANGED <<smVars, quotaVars, sessVars, runVars, tryVars, askVars, logVars>>

NextUpsert ==
    \/ \E df \in SaveFrames : save_options_data(df)
    \/ NextDay

KeysOf(rows) == {Key(rows[i]) : i \in 1..Len(rows)}

\* the last record of frame new with key k: the last UPDATE wins
LastWithKey(new, k) ==
    new[CHOOSE j \in 1..Len(new) :
            /\ Key(new[j]) = k
            /\ \A h \in 1..Len(new) : Key(new[h]) = k => h <= j]

\* C16: after save_options_data of a frame whose records have different keys,
\* every record of the frame whose key was not in the table is in the table,
\* also when other records of the frame have keys that were there already.
C16_NewKeysInserted ==
    Cardinality(KeysOf(last_saved)) = Len(last_saved) =>
        \A k \in KeysOf(last_saved) \ KeysOf(saved_over) : k \in KeysOf(options_data)

\* C17: when every key of the saved frame was in the table already, the row
\* count is unchanged and each row with such a key carries bid, ask and the
\* Greeks (delta and rho in the model) of the frame's record with that key.
C17_UpdateOverwritesQuoteAndGreeks ==
    (last_saved # <<>> /\ KeysOf(last_saved) \subseteq KeysOf(saved_over)) =>
        /\ Len(options_data) = Len(saved_over)
        /\ \A i \in 1..Len(options_data) :
              Key(options_data[i]) \in KeysOf(last_saved) =>
                  LET rec == LastWithKey(last_saved, Key(options_data[i]))
                  IN  /\ options_data[i].bid = rec.bid
                      /\ options_data[i].ask = rec.ask
                      /\ options_data[i].delta = rec.delta
                      /\ options_data[i].rho = rec.rho

\* ------------------------------------------------------------------------
\* The ledger under every UsageMonitor operation, two recording monitors,
\* restarts and a process that dies inside record_usage
\* ------------------------------------------------------------------------
\* the monitors of the fetchers that record in one process
Recorders == {"qqq", "constituents"}

\* no process has died inside record_usage since the monitors were constructed
alive == answer.op # "crash"

\* UsageMonitor.reset_daily_usage: today's daily counter is set to 0
after_reset_daily_usage(u, day) == [u EXCEPT !.daily[day] = 0]

\* reset_daily_usage of monitor m; it writes only when today is a key of daily
reset_daily_usage(m) ==
    /\ IF daily_usage(usage_data[m], today) > 0
       THEN /\ usage_data' = [usage_data EXCEPT ![m] = after_reset_daily_usage(@, today)]
            /\ usage_file' = _save_usage_data(usage_data'[m])
       ELSE UNCHANGED <<usage_data, usage_file>>
    /\ answer' = [op |-> "reset", monitor |-> m, n |-> 0, ok |-> TRUE,
                  before |-> usage_data[m]]
    /\ UNCHANGED <<limits, today, loaded, recorded, notQuota>>

\* What _save_usage_data leaves on disk when the process dies in it:
\* open(..., 'w') truncates the file, json.dump then writes it piece by piece
LedgerCrashOutcomes(u) == {usage_file, TruncatedLedgerFile, _save_usage_data(u)}

\* the process dies inside record_usage(count) of monitor m
record_usage_crash(m, count) ==
    /\ usage_data[m].total + count <= MaxTotal
    /\ \E file \in LedgerCrashOutcomes(after_record_usage(usage_data[m], today, count)) :
         usage_file' = file
    /\ answer' = [op |-> "crash", monitor |-> m, n |-> count, ok |-> FALSE,
                  before |-> usage_data[m]]
    /\ UNCHANGED <<limits, usage_data, today, loaded, recorded, notQuota>>

\* the units one ledger holds in this specification, at most
MaxLedgerTotal == 2

NextLedger ==
    \/ /\ alive
       /\ \E m \in Recorders :
            /\ usage_data[m].total + 1 <= MaxLedgerTotal
            /\ record_usage(m, 1)
    \/ alive /\ can_make_request("qqq", 1)
    \/ alive /\ \E m \in Recorders : reset_daily_usage(m)
    \/ alive /\ NextDay
    \/ /\ alive
       /\ \E m \in Recorders :
            /\ usage_data[m].total + 1 <= MaxLedgerTotal
            /\ record_usage_crash(m, 1)
    \/ NewMonitors

\* the units the monitors of the running process passed to record_usage
RecordedByAll ==
    SumDays([d \in Days |-> recorded["qqq"][d] + recorded["constituents"][d]
                              + recorded["eod"][d]], Days)

\* C18: no operation of a UsageMonitor lowers the daily counter of a day or
\* the monthly counter of a month.
C18_CountersNeverDecrease ==
    [][answer'.op \in {"record", "ask", "reset"} =>
          \A m \in Monitors :
              /\ \A d \in Days : usage_data'[m].daily[d] >= usage_data[m].daily[d]
              /\ \A k \in Months : usage_data'[m].monthly[k] >= usage_data[m].monthly[k]]_vars

\* C19: also when one monitor does all the recording, what a restarted
\* process would load from the ledger file holds all the consumption recorded:
\* the total the running process loaded plus the units its completed
\* record_usage calls recorded, whether or not the process died inside
\* record_usage.
C19_RecordedSurvivesRestart ==
    (\A d \in Days : recorded["constituents"][d] = 0) =>
        _load_usage_data(usage_file).total >= loaded.total + RecordedByAll

\* ------------------------------------------------------------------------
\* The operations of FetchStateManager, one call at a time
\* ------------------------------------------------------------------------
NotAsked == [op |-> "none", value |-> None]

AskInit == asked = NotAsked

\* a call of get_next_ticker: the state is read, not written
call_get_next_ticker ==
    /\ asked' = [op |-> "get_next_ticker", value |-> get_next_ticker(state)]
    /\ UNCHANGED <<smVars, quotaVars, sessVars, storeVars, runVars, tryVars, logVars>>

\* a call of get_resume_point
call_get_resume_point ==
    /\ asked' = [op |-> "get_resume_point", value |-> get_resume_point(state)]
    /\ UNCHANGED <<smVars, quotaVars, sessVars, storeVars, runVars, tryVars, logVars>>

NextContract ==
    \/ Tick
    \/ \E tickers \in TickerLists : initialize_tickers(tickers)
    \/ \E t \in Tickers : start_ticker(t)
    \/ \E t \in Tickers, r \in 0..1, p \in 0..1 : complete_ticker(t, r, p)
    \/ \E t \in Tickers, e \in ErrorTexts, n \in {0, max_retries} : fail_ticker(t, e, n)
    \/ reset_state
    \/ Restart
    \/ call_get_next_ticker
    \/ call_get_resume_point

\* C21: a call of get_resume_point returns the in-progress target when there
\* is one, otherwise the head of pending, otherwise None; a call of
\* get_next_ticker returns the head of pending or None; neither call changes
\* the state or its file.
C21_ResumePointReadsOnly ==
    [][asked' # asked =>
          /\ state' = state
          /\ state_file' = state_file
          /\ asked'.op = "get_next_ticker" =>
                asked'.value = IF state.pending # <<>> THEN Head(state.pending) ELSE None
          /\ asked'.op = "get_resume_point" =>
                asked'.value = IF state.in_progress # None THEN state.in_progress
                               ELSE IF state.pending # <<>> THEN Head(state.pending)
                               ELSE None]_vars

\* get_resume_point returned the in-progress target although pending is not empty
C21_Witness ==
    /\ asked.op = "get_resume_point"
    /\ state.in_progress # None
    /\ state.pending # <<>>
    /\ asked.value = state.in_progress
    /\ asked.value # Head(state.pending)

\* ------------------------------------------------------------------------
\* The ledger across midnight
\* ------------------------------------------------------------------------
\* C22: when the calendar date changes while the process runs, every monitor
\* sees a daily usage of 0 for the new date (can_make_request then decides as
\* for an unused day, get_remaining_quota reports daily_used = 0), and the
\* monthly usage keeps its value unless the month changed too.
C22_DailyRollsOverAtMidnight ==
    [][today' # today =>
          \A m \in Monitors :
              /\ daily_usage(usage_data'[m], today') = 0
              /\ get_remaining_quota(usage_data'[m], today').daily_used = 0
              /\ get_remaining_quota(usage_data'[m], today').daily_remaining = daily_limit
              /\ MonthOf(today') = MonthOf(today) =>
                    /\ monthly_usage(usage_data'[m], today')
                          = monthly_usage(usage_data[m], today)
                    /\ get_remaining_quota(usage_data'[m], today').monthly_used
                          = monthly_usage(usage_data[m], today)
              /\ \A n \in UnitChoices :
                    can_make_request_returns(usage_data'[m], today', n)
                      <=> /\ n <= daily_limit
                          /\ monthly_usage(usage_data'[m], today') + n <= monthly_limit]_vars

\* the day after a day with recorded units, in the same month: the daily usage
\* is 0 and the monthly usage is not
C22_Witness ==
    /\ today > 0
    /\ MonthOf(today) = MonthOf(today - 1)
    /\ \E m \in Monitors :
          /\ usage_data[m].daily[today - 1] > 0
          /\ daily_usage(usage_data[m], today) = 0
          /\ monthly_usage(usage_data[m], today) > 0

\* ------------------------------------------------------------------------
\* FetchStateManager: the contracts of the operations
\* ------------------------------------------------------------------------
\* every target of the session has been completed or has failed, and none is
\* waiting or being fetched
AllProcessed(s) ==
    /\ targets # {}
    /\ s.total_tickers > 0
    /\ s.pending = <<>>
    /\ s.in_progress = None
    /\ \A t \in targets : InSeq(t, s.completed) \/ s.failed[t].present

\* C23: the status is one of initialized, ready, fetching, completed and
\* failed, and a session whose targets have all been processed has the
\* status completed or failed.
C23_StatusFollowsLifecycle ==
    /\ state.status \in {"initialized", "ready", "fetching", "completed", "failed"}
    /\ AllProcessed(state) => state.status \in {"completed", "failed"}

\* the cumulative statistics of a state
Statistics(s) ==
    <<s.records_fetched, s.api_points_used, s.errors_encountered, s.retries_attempted>>

C26_StatisticsSumOverCompleted ==
    state.completed = <<>> =>
        /\ state.records_fetched = 0
        /\ state.api_points_used = 0

C28_ResetStartsFreshSession ==
    [][reset_state =>
          /\ state'.session_id # state.session_id
          /\ state'.pending = <<>>
          /\ state'.completed = <<>>
          /\ FailedSet(state') = {}
          /\ state'.in_progress = None
          /\ Statistics(state') = <<0, 0, 0, 0>>
          /\ state'.checkpoints = <<>>]_vars

\* ------------------------------------------------------------------------
\* DataProcessor.validate_data: what a caller receives
\* ------------------------------------------------------------------------
\* _remove_invalid_records builds validation_log, one entry per filter that
\* removed something, each filter counting in what the filters before it
\* left; the entries go to logger.info and nowhere else
validation_log(df) ==
    LET crossed == SelectSeq(df, LAMBDA r : Gt(r.bid, r.ask))
        rest1 == SelectSeq(df, LAMBDA r : ~Gt(r.bid, r.ask))
        expired == SelectSeq(rest1, LAMBDA r : r.days_to_expiry <= 0)
        rest2 == SelectSeq(rest1, LAMBDA r : ~(r.days_to_expiry <= 0))
        extreme == SelectSeq(rest2, LAMBDA r : ExtremeSpread(r))
    IN  {e \in {<<"bid > ask", Len(crossed)>>,
                <<"expired", Len(expired)>>,
                <<"spread > 50%", Len(extreme)>>} : e[2] > 0}

\* a call of validate_data on a non-empty frame: the caller receives the
\* return value, which is the cleaned frame alone
call_validate_data(raw, clock) ==
    LET derived == [i \in 1..Len(raw) |->
                      _calculate_derived_fields(_clean_prices(raw[i]), today,
                                                clock = "midnight")]
    IN  /\ asked' = [op |-> "validate_data",
                     raw |-> raw,
                     value |-> [frame |-> validate_data(raw, today, clock = "midnight")],
                     logged |-> validation_log(derived)]
        /\ UNCHANGED <<smVars, quotaVars, sessVars, storeVars, runVars, tryVars, logVars>>

NextValidate ==
    \/ \E raw \in RawFrames, clock \in {"day", "midnight"} : call_validate_data(raw, clock)
    \/ NextDay

\* C29: validate_data drops every record with bid > ask, and what it returns
\* holds, next to the accepted records, a rejection report with a count per
\* reason: for a frame of one record with bid > ask the accepted frame is
\* empty and the report is {"bid > ask": 1}.
C29_ReturnsAcceptedAndReport ==
    asked.op = "validate_data" =>
        /\ \A i \in 1..Len(asked.value.frame) :
              ~Gt(asked.value.frame[i].bid, asked.value.frame[i].ask)
        /\ (Len(asked.raw) = 1 /\ Gt(asked.raw[1].bid, asked.raw[1].ask)) =>
              /\ asked.value.frame = <<>>
              /\ "report" \in DOMAIN asked.value
              /\ asked.value.report = {<<"bid > ask", 1>>}

\* ------------------------------------------------------------------------
\* ConstituentsFetcher.fetch_all_constituents: termination and result
\* ------------------------------------------------------------------------
\* how often a ticker occurs in a list
Occurrences(seq, t) == Cardinality({i \in 1..Len(seq) : seq[i] = t})

\* the for loop of fetch_all_constituents has run to its end and the results
\* dictionary is returned
ConstituentsReturned ==
    /\ "constituents" \in called
    /\ pc # "constituents"
    /\ pc # "stopped"
    /\ idx > Len(Constituents)

\* C30: whatever the attempts on the targets end with, fetch_all_constituents
\* comes to its end (unless the process is killed), and in the result it
\* returns each target is once in exactly one of successful and failed.
C30_ConstituentsTerminateClassified ==
    /\ [](ConstituentsReturned =>
            \A i \in 1..Len(Constituents) :
                Occurrences(results.successful, Constituents[i])
                  + Occurrences(results.failed, Constituents[i]) = 1)
    /\ (pc = "constituents") ~> (ConstituentsReturned \/ pc = "stopped")

\* returned with one target successful and the other failed after
\* max_retries attempts
C30_Witness ==
    /\ ConstituentsReturned
    /\ results.successful = <<"AAPL">>
    /\ results.failed = <<"MSFT">>
    /\ attempts["MSFT"] = max_retries
    /\ attempts["AAPL"] > 1

\* ------------------------------------------------------------------------
\* The UsageMonitor instances of one run on one ledger file
\* ------------------------------------------------------------------------
\* every monitor of the run records and asks; no process dies, nothing is reset
NextMonitors ==
    \/ \E m \in Monitors :
         /\ usage_data[m].total + 1 <= MaxLedgerTotal
         /\ record_usage(m, 1)
    \/ \E m \in Monitors : can_make_request(m, 1)
    \/ NextDay
    \/ NewMonitors

\* the units of a day on the ledger file plus what the run recorded on it
TrueDaily(d) ==
    loaded.daily[d] + recorded["qqq"][d] + recorded["constituents"][d] + recorded["eod"][d]

\* C31: in every interleaving of the record_usage calls of the monitors of
\* one run, the daily counters and the total on the ledger file equal what
\* was loaded plus the units recorded by all monitors, and the last
\* can_make_request decided on that total.
C31_MonitorsShareOneTotal ==
    /\ \A d \in Days : _load_usage_data(usage_file).daily[d] = TrueDaily(d)
    /\ _load_usage_data(usage_file).total = loaded.total + RecordedByAll
    /\ answer.op = "ask" =>
          (answer.ok <=> TrueDaily(today) + answer.n <= daily_limit)

\* ------------------------------------------------------------------------
\* RobustFetcher._fetch_qqq_with_recovery: saving before completing
\* ------------------------------------------------------------------------
\* what fetch_options_chain returns for the far expiry: one or two contracts
\* of that expiry, each at most once
ChainRecords ==
    {[ticker |-> t, expiry |-> FarExpiry, bid |-> b, ask |-> a, delta |-> 1, rho |-> 1] :
        t \in {"QQQ C2", "QQQ C3"}, b \in RawBids, a \in RawAsks}

ChainFrames ==
    {<<r>> : r \in ChainRecords}
    \cup {f \in {<<r, s>> : r \in ChainRecords, s \in ChainRecords} : f[1].ticker # f[2].ticker}

NoAttempt == [op |-> "none", value |-> None, validated |-> {}]

\* one pass of the expiry loop with data: validate_data, then save_options_data
\* at once; validated collects the keys of the records that passed validation
\* in this attempt
qqq_expiry_saved(raw, clock) ==
    LET df == validate_data(raw, today, clock = "midnight")
    IN  /\ asked.op \in {"none", "qqq_try"}
        \* a later pass of the expiry loop brings other contracts
        /\ asked.op = "qqq_try" =>
              \A i \in 1..Len(raw) : <<raw[i].ticker, today>> \notin asked.validated
        /\ Len(after_save_options_data(options_data, df, today)) <= MaxRows
        /\ options_data' = after_save_options_data(options_data, df, today)
        /\ asked' = [op |-> "qqq_try", value |-> None,
                     validated |-> (IF asked.op = "none" THEN {} ELSE asked.validated)
                                      \cup KeysOf(Stamp(df, today))]
        /\ UNCHANGED <<repeat, last_saved, saved_over>>
        /\ UNCHANGED <<smVars, quotaVars, sessVars, runVars, tryVars, logVars>>

\* a later call of the try block raises: the rows saved so far stay in the
\* table and the while loop starts the attempt again
qqq_try_raises ==
    /\ asked.op = "qqq_try"
    /\ asked' = NoAttempt
    /\ UNCHANGED <<smVars, quotaVars, sessVars, storeVars, runVars, tryVars, logVars>>

\* the expiry loop is over with data: complete_ticker("QQQ", ...) and return
qqq_complete ==
    /\ asked.op = "qqq_try"
    /\ state.records_fetched + 1 <= MaxStat
    /\ state.api_points_used + 1 <= MaxStat
    /\ state' = after_complete_ticker(state, "QQQ", 1, 1)
    /\ state_file' = save_state(state')
    /\ asked' = [asked EXCEPT !.op = "qqq_done"]
    /\ UNCHANGED <<now, targets, crash_obs>>
    /\ UNCHANGED <<quotaVars, sessVars, storeVars, runVars, tryVars, logVars>>

NextCommit ==
    \/ \E raw \in ChainFrames, clock \in {"day", "midnight"} : qqq_expiry_saved(raw, clock)
    \/ qqq_try_raises
    \/ qqq_complete
    \/ NextDay

Settled(t) == Occurrences(results.successful, t) + Occurrences(results.failed, t) = 1

\* the ticker has not been touched in this run
Untouched(t) ==
    /\ attempts[t] = 0
    /\ ~InSeq(t, results.successful)
    /\ ~InSeq(t, results.failed)

LogInit == fetch_history = {}

\* the rows of a (session_id, ticker) key; UNIQUE(session_id, ticker)
HistoryRows(rows, session_id, ticker) ==
    {r \in rows : r.session_id = session_id /\ r.ticker = ticker}

\* _log_ticker_start: INSERT OR REPLACE ... VALUES (?, ?, 'in_progress', ?)
_log_ticker_start(rows, session_id, ticker) ==
    (rows \ HistoryRows(rows, session_id, ticker))
    \cup {[session_id |-> session_id, ticker |-> ticker, status |-> "in_progress"]}

\* UPDATE fetch_history SET status = ... WHERE session_id = ? AND ticker = ?
UpdateStatus(rows, session_id, ticker, status) ==
    {IF r.session_id = session_id /\ r.ticker = ticker
     THEN [r EXCEPT !.status = status] ELSE r : r \in rows}

_log_ticker_complete(rows, session_id, ticker) ==
    UpdateStatus(rows, session_id, ticker, "completed")

_log_ticker_failure(rows, session_id, ticker) ==
    UpdateStatus(rows, session_id, ticker, "failed")

start_ticker_logged(ticker) ==
    /\ state' = after_start_ticker(state, ticker)
    /\ state_file' = IF start_ticker_returns(state, ticker)
                     THEN save_state(state') ELSE state_file
    /\ fetch_history' = IF start_ticker_returns(state, ticker)
                        THEN _log_ticker_start(fetch_history, state.session_id, ticker)
                        ELSE fetch_history
    /\ targets' = targets \cup {ticker}
    /\ crash_obs' = NoCrash
    /\ UNCHANGED <<now, quotaVars, sessVars, storeVars, runVars, tryVars, askVars>>

complete_ticker_logged(ticker, records, api_points) ==
    /\ state.records_fetched + records <= MaxStat
    /\ state.api_points_used + api_points <= MaxStat
    /\ state' = after_complete_ticker(state, ticker, records, api_points)
    /\ state_file' = save_state(state')
    /\ fetch_history' = _log_ticker_complete(fetch_history, state.session_id, ticker)
    /\ targets' = targets \cup {ticker}
    /\ crash_obs' = NoCrash
    /\ UNCHANGED <<now, quotaVars, sessVars, storeVars, runVars, tryVars, askVars>>

fail_ticker_logged(ticker, error, retries) ==
    /\ state.errors_encountered + 1 <= MaxStat
    /\ state' = after_fail_ticker(state, ticker, error, retries)
    /\ state_file' = save_state(state')
    /\ fetch_history' = _log_ticker_failure(fetch_history, state.session_id, ticker)
    /\ targets' = targets \cup {ticker}
    /\ crash_obs' = NoCrash
    /\ UNCHANGED <<now, quotaVars, sessVars, storeVars, runVars, tryVars, askVars>>

NextHistory ==
    \/ \E tickers \in TickerLists : initialize_tickers(tickers)
    \/ \E t \in Tickers : start_ticker_logged(t)
    \/ \E t \in Tickers, r \in 0..1 : complete_ticker_logged(t, r, r)
    \/ \E t \in Tickers, e \in ErrorTexts, n \in {0, max_retries} : fail_ticker_logged(t, e, n)

\* C34: fetch_history holds exactly one row for every target of the session
\* that is in progress, completed or failed, and a row's status names a set
\* the target is in: in_progress, completed or failed.
C34_HistoryMatchesState ==
    \A t \in Tickers :
        LET rows == HistoryRows(fetch_history, state.session_id, t)
        IN  /\ (state.in_progress = t \/ InSeq(t, state.completed) \/ state.failed[t].present)
                  => Cardinality(rows) = 1
            /\ \A r \in rows :
                  /\ r.status = "in_progress" => state.in_progress = t
                  /\ r.status = "completed" => InSeq(t, state.completed)
                  /\ r.status = "failed" => state.failed[t].present

\* ------------------------------------------------------------------------
\* DataProcessor.transform_bloomberg_data
\* ------------------------------------------------------------------------
\* the securities of a historical response
Entities == {"QQQ US 10/03/25 C490 Equity", "QQQ US 10/03/25 P490 Equity"}

\* the provider fields requested, each as its pieces between underscores
FieldPieces ==
    [f \in {"PX_BID", "OPEN_INT", "DELTA"} |->
        IF f = "PX_BID" THEN <<"PX", "BID">>
        ELSE IF f = "OPEN_INT" THEN <<"OPEN", "INT">>
        ELSE <<"DELTA">>]

ProviderFields == DOMAIN FieldPieces

ObservationDates == {1, 2}

\* _process_historical_response: key = f"{ticker}_{field}"; a name is kept as
\* its pieces between underscores (an entity name holds no underscore)
ColumnName(entity, field) == <<entity>> \o FieldPieces[field]

\* a column of the frame: absent, or the dates at which it holds a value
ColumnData ==
    {[present |-> FALSE, dates |-> {}]}
    \cup {[present |-> TRUE, dates |-> D] : D \in SUBSET ObservationDates}

Payloads == [Entities \X ProviderFields -> ColumnData]

\* the column names of a frame
ColumnsOf(df) ==
    {ColumnName(c[1], c[2]) : c \in {k \in Entities \X ProviderFields : df[k].present}}

\* the dates at which the column with this name holds a value
DatesOf(df, col) ==
    UNION {df[k].dates : k \in {c \in Entities \X ProviderFields :
                                   df[c].present /\ ColumnName(c[1], c[2]) = col}}

\* col.rsplit('_', 1)[0] and col.rsplit('_', 1)[1]
ticker_part(col) == SubSeq(col, 1, Len(col) - 1)

field_part(col) == col[Len(col)]

\* bloomberg_field_mappings.get(field_name, field_name.lower())
standard_field(field_name) ==
    IF field_name = "PX_BID" THEN "bid"
    ELSE IF field_name = "OPEN_INT" THEN "open_interest"
    ELSE IF field_name = "DELTA" THEN "delta"
    ELSE IF field_name = "BID" THEN "bid"
    ELSE IF field_name = "INT" THEN "int"
    ELSE IF field_name = "OPEN" THEN "open"
    ELSE "px"

\* _parse_bloomberg_ticker on a group key: split() on white space and the
\* first four parts, which all lie before the first underscore
ContractOf(ticker_key) == ticker_key[1]

\* one record per group key and date with data, carrying the group's fields
\* that have a value at that date
transform_bloomberg_data(df) ==
    LET ticker_groups == {ticker_part(col) : col \in ColumnsOf(df)}
        fields(g) == {col \in ColumnsOf(df) : ticker_part(col) = g}
        dates_with_data(g) == UNION {DatesOf(df, col) : col \in fields(g)}
    IN  UNION {{[ticker |-> g,
                 contract |-> ContractOf(g),
                 fetch_date |-> d,
                 fields |-> {standard_field(field_part(col)) :
                                col \in {c \in fields(g) : d \in DatesOf(df, c)}}] :
                  d \in dates_with_data(g)} : g \in ticker_groups}

\* a call of transform_bloomberg_data on a frame of the provider
call_transform_bloomberg_data(df) ==
    /\ asked.op = "none"
    /\ asked' = [op |-> "transform_bloomberg_data", df |-> df,
                 value |-> transform_bloomberg_data(df)]
    /\ UNCHANGED <<smVars, quotaVars, sessVars, storeVars, runVars, tryVars, logVars>>

NextTransform == \E df \in Payloads : call_transform_bloomberg_data(df)

\* the provider fields of an entity that hold a value at a date
FieldsWithValue(df, e, d) == {f \in ProviderFields : df[<<e, f>>].present /\ d \in df[<<e, f>>].dates}

\* C35: for every entity and observation date with a value in any of the
\* entity's fields the result holds exactly one record, and that record
\* carries every field of the entity that has a value at that date, under
\* its standard name; there is no record for any other pair.
C35_OneRecordPerEntityAndDate ==
    asked.op = "transform_bloomberg_data" =>
        \A e \in Entities, d \in ObservationDates :
            LET recs == {r \in asked.value : r.contract = e /\ r.fetch_date = d}
            IN  IF FieldsWithValue(asked.df, e, d) = {} THEN recs = {}
                ELSE /\ Cardinality(recs) = 1
                     /\ \A r \in recs :
                           r.fields = {standard_field(f) : f \in FieldsWithValue(asked.df, e, d)}

\* C36: right after initialize_tickers(T) with a non-empty T, whatever the
\* session state was before, get_resume_point returns the first element of T.
C36_ResumePointAfterInitialize ==
    [][\A T \in TickerLists :
          (T # <<>> /\ initialize_tickers(T)) => get_resume_point(state') = Head(T)]_vars

\* ------------------------------------------------------------------------
\* FetchStateManager.save_state when the write fails
\* ------------------------------------------------------------------------
\* save_state catches every exception of open and json.dump and logs it: when
\* open fails the file is as before, when json.dump fails the file was
\* truncated by open and holds no complete document
FailedSaveOutcomes == {state_file, TruncatedFile}

\* a mutating method whose save_state fails: the method returns normally.
\* The model follows one failed write at a time: the next one comes after a
\* write that succeeded or a restart.
mutation_with_failed_save ==
    \E after \in MutationResults, file \in FailedSaveOutcomes :
        /\ _load_or_create_state(state_file, now) = state
        /\ state' = after
        /\ state_file' = file
        /\ crash_obs' = NoCrash
        /\ UNCHANGED <<now, targets, notSM>>

NextSaveFails ==
    \/ \E tickers \in TickerLists : initialize_tickers(tickers)
    \/ \E t \in Tickers : start_ticker(t)
    \/ \E t \in Tickers, r \in 0..1 : complete_ticker(t, r, r)
    \/ \E t \in Tickers, e \in ErrorTexts : fail_ticker(t, e, max_retries)
    \/ Restart
    \/ mutation_with_failed_save

\* C37: a fresh FetchStateManager that loads the state file observes the
\* pending, in_progress, completed, failed and statistics of the in-memory
\* state, also after a method whose write of the file failed.
C37_FileMirrorsMemory ==
    LET loaded_state == _load_or_create_state(state_file, now)
    IN  /\ loaded_state.pending = state.pending
        /\ loaded_state.in_progress = state.in_progress
        /\ loaded_state.completed = state.completed
        /\ loaded_state.failed = state.failed
        /\ Statistics(loaded_state) = Statistics(state)

\* ------------------------------------------------------------------------
\* fetch_all_constituents: total_api_points against the ledger
\* ------------------------------------------------------------------------
\* results['total_api_points'] so far
total_api_points == IF asked.op = "total_api_points" THEN asked.value ELSE 0

\* one pass of the while loop with the results dictionary: on success
\* api_points = len(equity_fields) + len(processed_data) * len(option_fields)
\* is added, processed_data being the fetched rows less the rows that
\* validate_data rejected
process_constituent_reported(got_data, option_tickers, rows, rejected, raises) ==
    LET try == try_block(usage_data["constituents"], got_data, option_tickers, rows)
        success == try.rows > 0 /\ ~raises
    IN  /\ rejected <= try.rows
        /\ process_constituent_pass(got_data, option_tickers, rows, raises)
        /\ asked' = [op |-> "total_api_points",
                     value |-> IF success
                               THEN total_api_points + EquityFieldsLen
                                      + (try.rows - rejected) * ConstituentOptionFieldsLen
                               ELSE total_api_points]

NextReport ==
    \/ \E r \in BOOLEAN : StartRun(r)
    \/ fetch_all_constituents
    \/ \E g, x \in BOOLEAN, n \in 1..MaxChain, rows \in RowChoices, j \in 0..1 :
         process_constituent_reported(g, n, rows, j, x)

\* the units the ledger's daily counters grew by since the monitor loaded it
LedgerGrowth ==
    SumDays([d \in Days |-> usage_data["constituents"].daily[d] - loaded.daily[d]], Days)

\* C38: when fetch_all_constituents returns, its total_api_points equals the
\* units by which the ledger's daily counter grew during the run.
C38_ReportedEqualsCharged ==
    ConstituentsReturned => total_api_points = LedgerGrowth

\* ------------------------------------------------------------------------
\* BloombergAPI.build_option_ticker and DataProcessor._parse_bloomberg_ticker
\* ------------------------------------------------------------------------
\* Strikes are counted in half units: 95 stands for 47.5. An expiry is
\* <<year, month, day>>.
ChainExpiries == {<<2025, 10, 17>>, <<2026, 1, 16>>}

\* the strike intervals of _get_strike_interval, in half units: 0.5, 1.0, 2.5
StrikeIntervals == {1, 2, 5}

\* the lowest strikes of the chains of the model, in half units
ChainMinStrikes == 90..99

\* f"{strike:.0f}": the nearest integer, a half going to the even neighbour
format_0f(strike) ==
    IF strike % 2 = 0 THEN strike \div 2
    ELSE LET below == (strike - 1) \div 2
         IN  IF below % 2 = 0 THEN below ELSE below + 1

\* f"{underlying} US {expiry_str} {option_type}{strike:.0f} Equity" with
\* expiry_str = strftime("%m/%d/%y"); the string is kept as its parts
build_option_ticker(underlying, expiry, strike, option_type) ==
    [underlying |-> underlying,
     country |-> "US",
     date |-> <<expiry[2], expiry[3], expiry[1] % 100>>,
     option |-> <<option_type, format_0f(strike)>>,
     suffix |-> "Equity"]

\* get_option_chain: a call and a put for min_strike, min_strike + interval,
\* ... up to max_strike
ChainContracts(min_strike, max_strike, strike_interval) ==
    [i \in 1..(2 * ((max_strike - min_strike) \div strike_interval + 1)) |->
        [strike |-> min_strike + ((i - 1) \div 2) * strike_interval,
         option_type |-> IF i % 2 = 1 THEN "C" ELSE "P"]]

get_option_chain(underlying, expiry, min_strike, max_strike, strike_interval) ==
    LET contracts == ChainContracts(min_strike, max_strike, strike_interval)
    IN  [i \in 1..Len(contracts) |->
            build_option_ticker(underlying, expiry, contracts[i].strike,
                                contracts[i].option_type)]

\* _parse_bloomberg_ticker: year = "20" + yy, strike = float(option_part[1:])
_parse_bloomberg_ticker(ticker_key) ==
    [ticker |-> ticker_key,
     underlying |-> ticker_key.underlying,
     expiry |-> <<2000 + ticker_key.date[3], ticker_key.date[1], ticker_key.date[2]>>,
     option_type |-> ticker_key.option[1],
     strike |-> 2 * ticker_key.option[2]]

\* a chain is generated and every ticker of it is parsed
call_get_option_chain(underlying, expiry, min_strike, max_strike, strike_interval) ==
    LET chain == get_option_chain(underlying, expiry, min_strike, max_strike, strike_interval)
    IN  /\ asked.op = "none"
        /\ asked' = [op |-> "get_option_chain",
                     underlying |-> underlying,
                     expiry |-> expiry,
                     contracts |-> ChainContracts(min_strike, max_strike, strike_interval),
                     tickers |-> chain,
                     value |-> [i \in 1..Len(chain) |-> _parse_bloomberg_ticker(chain[i])]]
        /\ UNCHANGED <<smVars, quotaVars, sessVars, storeVars, runVars, tryVars, logVars>>

NextChain ==
    \E u \in Tickers, e \in ChainExpiries, lo \in ChainMinStrikes,
       step \in StrikeIntervals, n \in 1..2 :
        call_get_option_chain(u, e, lo, lo + n * step, step)

\* C39: every ticker of a generated chain parses back to the underlying,
\* expiry, option class and strike it was built from, and different
\* contracts of the chain have different tickers.
C39_TickerRoundTrip ==
    asked.op = "get_option_chain" =>
        /\ \A i \in 1..Len(asked.tickers) :
              /\ asked.value[i].underlying = asked.underlying
              /\ asked.value[i].expiry = asked.expiry
              /\ asked.value[i].option_type = asked.contracts[i].option_type
              /\ asked.value[i].strike = asked.contracts[i].strike
        /\ \A i, j \in 1..Len(asked.tickers) :
              i # j => asked.tickers[i] # asked.tickers[j]

\* ------------------------------------------------------------------------
\* Specifications
\* ------------------------------------------------------------------------
Init ==
    /\ SMInit /\ QuotaInit /\ SessionInit /\ StoreInit /\ RunInit /\ TryInit /\ AskInit
    /\ LogInit

InitFetch ==
    /\ SMInit
    /\ LedgerInit([daily_limit |-> FetchDailyLimit, monthly_limit |-> FetchMonthlyLimit])
    /\ SessionInit
    /\ StoreInit
    /\ RunInit
    /\ TryInit
    /\ AskInit
    /\ LogInit

\* the session state and its file
Spec == Init /\ [][Next]_vars

\* the quota ledger
SpecQuota == Init /\ [][NextQuota]_vars

\* the fetch paths
SpecFetch == InitFetch /\ [][NextFetch]_vars

\* the retry loops, over several processes
SpecSession == Init /\ [][NextSession]_vars

\* the fetch loops of a running process: a loop that can take a pass
\* eventually takes it, since a pass ends with a return, a bounded sleep or
\* an exception that the loop handles
SpecSessionFair ==
    /\ Init
    /\ [][NextSession]_vars
    /\ WF_vars(\E o \in Outcomes : constituent_attempt(o))

\* validation and the store
SpecStore == Init /\ [][NextStore]_vars

\* validate_data on its own
SpecValidate == Init /\ [][NextValidate]_vars

\* save_options_data on its own
SpecUpsert == Init /\ [][NextUpsert]_vars

\* every ledger operation, restarts and crashes
SpecLedger == Init /\ [][NextLedger]_vars

\* the operations of the state manager
SpecContract == Init /\ [][NextContract]_vars

\* fetch_all and main
SpecRun == Init /\ [][NextRun]_vars

\* the attempts of fetch_all_constituents against the quota ledger
SpecAttempt == InitFetch /\ [][NextAttempt]_vars

\* the monitors of one run, recording in any interleaving
SpecMonitors == Init /\ [][NextMonitors]_vars

\* the QQQ attempt: validate, save, complete
SpecCommit == Init /\ [][NextCommit]_vars

\* the state manager's methods with the progress table
SpecHistory == Init /\ [][NextHistory]_vars

\* transform_bloomberg_data on every frame of the model
SpecTransform == Init /\ [][NextTransform]_vars

\* the state manager's methods, with writes of the state file that fail
SpecSaveFails == Init /\ [][NextSaveFails]_vars

\* the constituents loop with its reported total, on the ledger
SpecReport == InitFetch /\ [][NextReport]_vars

\* option chains built and parsed back
SpecChain == Init /\ [][NextChain]_vars

====
